---------------------------- MODULE Spec2Model ----------------------------
(***************************************************************************)
(* A model of flask_filecache.FileCache: a cache directory whose files are *)
(* the entries, the file's modification time being the expiry instant.     *)
(* Every filesystem call of the source is one step of the calling process, *)
(* so that calls of several processes (and the clock) interleave between   *)
(* any two filesystem calls.                                               *)
(*                                                                         *)
(* Time is counted in ticks, Res ticks to the second, so that time.time()  *)
(* has a fractional part that int() truncates.                             *)
(***************************************************************************)
EXTENDS Integers, Sequences, FiniteSets, TLC

\* ------------------------------------------------------------------ bounds
Res == 2            \* clock ticks per second
MaxTick == 3        \* the clock stops here
MaxFaults == 1      \* injected filesystem failures per behaviour
PruneThreshold == 3 \* self._threshold of the specification of puts alone
ConcThreshold == 1  \* self._threshold of the two-process specification
SeqThreshold == 1   \* self._threshold of the single-process specifications

Procs == {1, 2}
Keys == {"a", "b", "c", "d"}
Payloads == {<<1, 2>>, <<3, 4>>}
NoTimeout == -1     \* timeout=None
Timeouts == {NoTimeout, 0, 1}
PosTimeouts == {NoTimeout, 1}

\* ----------------------------------------------------------- configuration
\* The constructor's arguments (lines 25-28), which override DEFAULT_CONFIG.
_timeout == 2              \* self._timeout, in seconds
_mode == 416               \* self._mode: 0o640, other than mkstemp's 0o600
MkstempMode == 384         \* 0o600, tempfile.mkstemp
CreateMode == 420          \* 0o644, a file created by open(dst, 'wb')
SourceMode == 436          \* 0o664, the mode of the source of put_file

_fs_transaction_suffix == "__cache_tmp"

\* The names tempfile.mkstemp can return to process p: unique to the call.
TmpNames(p) ==
    IF p = 1 THEN {"p1x__cache_tmp", "p1y__cache_tmp"}
             ELSE {"p2x__cache_tmp", "p2y__cache_tmp"}

AllTmp == UNION {TmpNames(p) : p \in Procs}
Names == Keys \cup AllTmp

\* ------------------------------------------------------------------- files
\* A file: its bytes, its modification time (ticks), its permission bits, the
\* process that holds it open for writing (0: none) and the process that
\* created it.
Absent ==
    [exists |-> FALSE, content |-> <<>>, mtime |-> 0, mode |-> 0, wr |-> 0, by |-> 0]

File(c, m, md, w, b) ==
    [exists |-> TRUE, content |-> c, mtime |-> m, mode |-> md, wr |-> w, by |-> b]

\* Results at the public boundary.
RPath(k) == [tag |-> "path", name |-> k]
RNone == [tag |-> "None", name |-> ""]
RTrue == [tag |-> "True", name |-> ""]
RFalse == [tag |-> "False", name |-> ""]
RRaised(e) == [tag |-> "raised", name |-> e]
RNoCall == [tag |-> "nocall", name |-> ""]

Undef == -1     \* the local `expires` when neither branch assigned it

VARIABLES
    dir,        \* the cache directory: name -> file
    now,        \* time.time(), in ticks
    threshold,  \* self._threshold
    pc,         \* where each process stands
    loc,        \* each process's arguments and locals
    ret,        \* each process's last returned value
    last,       \* the call each process completed before its current one
    faults      \* filesystem failures still to be injected

vars == <<dir, now, threshold, pc, loc, ret, last, faults>>


\* ---------------------------------------------------------------- helpers
InitLoc ==
    [op |-> "none", key |-> "", data |-> <<>>, timeout |-> NoTimeout,
     expires |-> Undef, entries |-> <<>>, idx |-> 0, pnow |-> 0, tmp |-> "",
     mtime |-> 0, t |-> 0, t0 |-> 0]

NoCall == [op |-> "none", key |-> "", data |-> <<>>, ret |-> RNoCall]

\* What is remembered of a call once the process starts its next one: a put
\* or put_file that returned its path, a clear that returned True.
Summary(p) ==
    IF \/ loc[p].op \in {"put", "put_file"} /\ ret[p] = RPath(loc[p].key)
       \/ loc[p].op = "clear" /\ ret[p] = RTrue
    THEN [op |-> loc[p].op, key |-> loc[p].key, data |-> loc[p].data, ret |-> ret[p]]
    ELSE NoCall

Present(d) == {n \in Names : d[n].exists}

\* os.listdir: the names present, in an order the filesystem chooses.
Listings(d) ==
    {s \in [1..Cardinality(Present(d)) -> Present(d)] :
        \A i, j \in DOMAIN s : i # j => s[i] # s[j]}

\* int(x) of a time in ticks: the whole seconds, as ticks.
IntSec(x) == (x \div Res) * Res

\* Expires with a zero timeout taken as 'expires now'.
ExpiresZeroNow(t0, timeout) ==
    IF timeout = NoTimeout THEN IntSec(t0 + _timeout * Res)
    ELSE IntSec(t0 + timeout * Res)

\* Expires rounded up to the next whole second.
ExpiresCeil(t0, timeout) ==
    IF timeout = NoTimeout THEN IntSec(t0 + _timeout * Res + Res - 1)
    ELSE IF timeout # 0 THEN IntSec(t0 + timeout * Res + Res - 1)
    ELSE Undef

\* Expires with the timeout left out of the sum.
ExpiresNoTimeout(t0, timeout) == IF timeout # 0 THEN IntSec(t0) ELSE Undef

\* expires = int(time.time() + timeout), lines 104-107; no branch assigns it
\* when timeout == 0.
Expires(t0, timeout) ==
    IF timeout = NoTimeout THEN IntSec(t0 + _timeout * Res)
    ELSE IF timeout # 0 THEN IntSec(t0 + timeout * Res)
    ELSE Undef

\* Valid with the boundary instant counted as expired.
ValidStrict(mtime, t) == mtime > t

\* mtime >= time.time(), lines 91 and 161.
Valid(mtime, t) == mtime >= t

\* Evict of the expired entries alone.
EvictExpired(mtime, t, idx) == mtime < t

\* remove = (mtime < now) or idx % 3 == 0, line 64.
Evict(mtime, t, idx) == mtime < t \/ idx % 3 = 0

\* os.remove(name): the directory without the name.
Removed(d, f) == [d EXCEPT ![f] = Absent]

\* Renamed as a copy: tmp keeps its name.
RenamedKeep(d, tmp, path) == [d EXCEPT ![path] = d[tmp]]

\* os.rename(tmp, path): path names the file tmp named, tmp names nothing.
Renamed(d, tmp, path) == [d EXCEPT ![path] = d[tmp], ![tmp] = Absent]

\* A call returns r (or raises): its locals die, its arguments and what it
\* returned are kept for the record.
Return(p, r) ==
    /\ pc' = [pc EXCEPT ![p] = "idle"]
    /\ ret' = [ret EXCEPT ![p] = r]
    /\ loc' = [loc EXCEPT ![p] = [InitLoc EXCEPT !.op = loc[p].op, !.key = loc[p].key,
                                                 !.data = loc[p].data,
                                                 !.mtime = loc[p].mtime, !.t = loc[p].t]]

\* The call goes on to its next filesystem call.
Goto(p, l) == pc' = [pc EXCEPT ![p] = l] /\ UNCHANGED ret

\* A call begins: fresh locals, the previous call is remembered.
Call(p, op, k, d, t, e, l) ==
    /\ pc[p] = "idle"
    /\ pc' = [pc EXCEPT ![p] = l]
    /\ loc' = [loc EXCEPT ![p] = [InitLoc EXCEPT !.op = op, !.key = k, !.data = d,
                                                 !.timeout = t, !.t0 = now,
                                                 !.expires = e]]
    /\ last' = [last EXCEPT ![p] = Summary(p)]
    /\ ret' = [ret EXCEPT ![p] = RNoCall]

\* The first step after _prune, for put and for put_file.
AfterPrune(p) == IF loc[p].op = "put" THEN "mkstemp" ELSE "copy_open"

\* Miss with get's sentinel for has as well.
MissNone(p) == RNone

\* The negative sentinel of get / has.
Miss(p) == IF loc[p].op = "get" THEN RNone ELSE RFalse

\* ------------------------------------------------------------------- clock
Tick ==
    /\ now < MaxTick
    /\ now' = now + 1
    /\ UNCHANGED <<dir, threshold, pc, loc, ret, last, faults>>

\* ------------------------------------------------------------ put, put_file
\* put(filename, data, timeout), lines 104-108: expires, then self._prune().
PutStart(p, k, d, t) ==
    /\ Call(p, "put", k, d, t, Expires(now, t), "prune_list")
    /\ UNCHANGED <<dir, now, threshold, faults>>

\* put_file(path, timeout), lines 128-132; the key is the source's base name.
\* Two copies into one key at the same time are not among the behaviours.
PutFileStart(p, k, d, t) ==
    /\ \A q \in Procs \ {p} : ~(pc[q] # "idle" /\ loc[q].op = "put_file" /\ loc[q].key = k)
    /\ Call(p, "put_file", k, d, t, Expires(now, t), "prune_list")
    /\ UNCHANGED <<dir, now, threshold, faults>>

\* PruneList scanning at the threshold already.
PruneListAtThreshold(p) ==
    /\ pc[p] = "prune_list"
    /\ \E es \in Listings(dir) :
         IF Len(es) >= threshold
         THEN /\ loc' = [loc EXCEPT ![p].entries = es, ![p].idx = 0, ![p].pnow = now]
              /\ Goto(p, "prune_stat")
         ELSE /\ UNCHANGED loc
              /\ Goto(p, AfterPrune(p))
    /\ UNCHANGED <<dir, now, threshold, last, faults>>

\* _prune, lines 57-59: the listing, the threshold test, now = time.time().
PruneList(p) ==
    /\ pc[p] = "prune_list"
    /\ \E es \in Listings(dir) :
         IF Len(es) > threshold
         THEN /\ loc' = [loc EXCEPT ![p].entries = es, ![p].idx = 0, ![p].pnow = now]
              /\ Goto(p, "prune_stat")
         ELSE /\ UNCHANGED loc
              /\ Goto(p, AfterPrune(p))
    /\ UNCHANGED <<dir, now, threshold, last, faults>>

\* The scan is over: its locals die, the write begins.
EndPrune(p) ==
    /\ Goto(p, AfterPrune(p))
    /\ loc' = [loc EXCEPT ![p].entries = <<>>, ![p].idx = 0, ![p].pnow = 0]

\* _prune, lines 61-64: the next entry's mtime and the eviction test; a
\* vanished entry raises OSError, which ends the scan (line 68).
PruneStat(p) ==
    /\ pc[p] = "prune_stat"
    /\ LET i == loc[p].idx
           es == loc[p].entries
       IN IF i >= Len(es) THEN EndPrune(p)
          ELSE IF ~dir[es[i + 1]].exists THEN EndPrune(p)
          ELSE IF Evict(dir[es[i + 1]].mtime, loc[p].pnow, i) THEN
               /\ Goto(p, "prune_remove")
               /\ UNCHANGED loc
          ELSE /\ Goto(p, "prune_stat")
               /\ loc' = [loc EXCEPT ![p].idx = i + 1]
    /\ UNCHANGED <<dir, now, threshold, last, faults>>

\* _prune, line 67: os.remove(fname); OSError ends the scan.
PruneRemove(p) ==
    /\ pc[p] = "prune_remove"
    /\ LET f == loc[p].entries[loc[p].idx + 1]
       IN IF dir[f].exists
          THEN /\ dir' = Removed(dir, f)
               /\ loc' = [loc EXCEPT ![p].idx = @ + 1]
               /\ Goto(p, "prune_stat")
          ELSE /\ EndPrune(p)
               /\ UNCHANGED dir
    /\ UNCHANGED <<now, threshold, last, faults>>

\* PutMkstemp opening the destination itself instead of a temporary file.
PutOpenDirect(p) ==
    /\ pc[p] = "mkstemp"
    /\ dir' = [dir EXCEPT ![loc[p].key] = File(<<>>, now, MkstempMode, 0, p)]
    /\ loc' = [loc EXCEPT ![p].tmp = loc[p].key]
    /\ Goto(p, "write")
    /\ UNCHANGED <<now, threshold, last, faults>>

\* put, line 111: tempfile.mkstemp creates an empty file under a fresh name.
PutMkstemp(p) ==
    /\ pc[p] = "mkstemp"
    /\ \E f \in TmpNames(p) :
         /\ ~dir[f].exists
         /\ dir' = [dir EXCEPT ![f] = File(<<>>, now, MkstempMode, 0, p)]
         /\ loc' = [loc EXCEPT ![p].tmp = f]
    /\ Goto(p, "write")
    /\ UNCHANGED <<now, threshold, last, faults>>

\* put, lines 113-114: the payload reaches the temporary file chunk by chunk
\* (the last chunk at the close that ends the with block); the chunks of a
\* file unlinked meanwhile are lost with it.
PutWrite(p) ==
    /\ pc[p] = "write"
    /\ LET f == loc[p].tmp
           n == Len(dir[f].content)
       IN IF ~dir[f].exists THEN
               /\ Goto(p, "rename")
               /\ UNCHANGED dir
          ELSE /\ dir' = [dir EXCEPT ![f].content = Append(@, loc[p].data[n + 1]),
                                     ![f].mtime = now]
               /\ Goto(p, IF n + 1 < Len(loc[p].data) THEN "write" ELSE "rename")
    /\ UNCHANGED <<now, threshold, loc, last, faults>>

\* put, line 115: os.rename(tmp, path), atomically replacing path.
PutRename(p) ==
    /\ pc[p] = "rename"
    /\ LET f == loc[p].tmp
       IN IF dir[f].exists
          THEN /\ dir' = Renamed(dir, f, loc[p].key)
               /\ Goto(p, "utime")
               /\ UNCHANGED loc
          ELSE /\ Return(p, RNone)
               /\ UNCHANGED dir
    /\ UNCHANGED <<now, threshold, last, faults>>

\* Utime leaving the modification time as the write left it.
UtimeSkip(p) ==
    /\ pc[p] = "utime"
    /\ LET k == loc[p].key
       IN IF loc[p].expires = Undef THEN
               /\ Return(p, RRaised("UnboundLocalError"))
               /\ UNCHANGED dir
          ELSE IF ~dir[k].exists THEN
               /\ Return(p, RNone)
               /\ UNCHANGED dir
          ELSE /\ Goto(p, "chmod")
               /\ UNCHANGED <<dir, loc>>
    /\ UNCHANGED <<now, threshold, last, faults>>

\* put line 116, put_file line 135: os.utime(path, (expires, expires)); an
\* unassigned `expires` is an UnboundLocalError, which no handler catches.
Utime(p) ==
    /\ pc[p] = "utime"
    /\ LET k == loc[p].key
       IN IF loc[p].expires = Undef THEN
               /\ Return(p, RRaised("UnboundLocalError"))
               /\ UNCHANGED dir
          ELSE IF ~dir[k].exists THEN
               /\ Return(p, RNone)
               /\ UNCHANGED dir
          ELSE /\ dir' = [dir EXCEPT ![k].mtime = loc[p].expires]
               /\ Goto(p, "chmod")
               /\ UNCHANGED loc
    /\ UNCHANGED <<now, threshold, last, faults>>

\* put line 117, put_file line 136: os.chmod(path, self._mode), then the path.
Chmod(p) ==
    /\ pc[p] = "chmod"
    /\ LET k == loc[p].key
       IN IF dir[k].exists
          THEN /\ dir' = [dir EXCEPT ![k].mode = _mode]
               /\ Return(p, RPath(k))
          ELSE /\ Return(p, RNone)
               /\ UNCHANGED dir
    /\ UNCHANGED <<now, threshold, last, faults>>

\* put_file, line 134, shutil.copy: open(dst, 'wb') creates or truncates the
\* file under the key itself.
CopyOpen(p) ==
    /\ pc[p] = "copy_open"
    /\ LET k == loc[p].key
       IN dir' = [dir EXCEPT ![k] =
                    IF dir[k].exists THEN File(<<>>, now, dir[k].mode, p, dir[k].by)
                                     ELSE File(<<>>, now, CreateMode, p, p)]
    /\ Goto(p, "copy_write")
    /\ UNCHANGED <<now, threshold, loc, last, faults>>

\* shutil.copy: the bytes are copied chunk by chunk into the open file; once
\* the name is unlinked or renamed over, they no longer reach the key.
CopyWrite(p) ==
    /\ pc[p] = "copy_write"
    /\ LET k == loc[p].key
           n == Len(dir[k].content)
       IN IF ~(dir[k].exists /\ dir[k].wr = p) THEN
               /\ Goto(p, "copy_mode")
               /\ UNCHANGED dir
          ELSE /\ dir' = [dir EXCEPT ![k].content = Append(@, loc[p].data[n + 1]),
                                     ![k].mtime = now,
                                     ![k].wr = IF n + 1 < Len(loc[p].data) THEN p ELSE 0]
               /\ Goto(p, IF n + 1 < Len(loc[p].data) THEN "copy_write" ELSE "copy_mode")
    /\ UNCHANGED <<now, threshold, loc, last, faults>>

\* shutil.copy: copymode(src, dst), an os.chmod of the destination path.
CopyMode(p) ==
    /\ pc[p] = "copy_mode"
    /\ LET k == loc[p].key
       IN IF dir[k].exists
          THEN /\ dir' = [dir EXCEPT ![k].mode = SourceMode]
               /\ Goto(p, "utime")
               /\ UNCHANGED loc
          ELSE /\ Return(p, RNone)
               /\ UNCHANGED dir
    /\ UNCHANGED <<now, threshold, last, faults>>

\* ---------------------------------------------------------------- get, has
\* get(filename), line 89 / has(filename), line 159.
GetStart(p, k) ==
    /\ Call(p, "get", k, <<>>, NoTimeout, Undef, "stat")
    /\ UNCHANGED <<dir, now, threshold, faults>>

HasStart(p, k) ==
    /\ Call(p, "has", k, <<>>, NoTimeout, Undef, "stat")
    /\ UNCHANGED <<dir, now, threshold, faults>>

\* get lines 90-92, has lines 160-162: os.path.getmtime(path) and the test
\* against time.time(); no file is an OSError, the negative sentinel.
GetStat(p) ==
    /\ pc[p] = "stat"
    /\ LET k == loc[p].key
       IN IF ~dir[k].exists THEN Return(p, Miss(p))
          ELSE IF Valid(dir[k].mtime, now) THEN
               Return(p, IF loc[p].op = "get" THEN RPath(k) ELSE RTrue)
          ELSE /\ Goto(p, "remove")
               /\ loc' = [loc EXCEPT ![p].mtime = dir[k].mtime, ![p].t = now]
    /\ UNCHANGED <<dir, now, threshold, last, faults>>

\* get lines 94-95, has lines 164-165: os.remove(path), then the sentinel
\* (also when the remove raised OSError).
GetRemove(p) ==
    /\ pc[p] = "remove"
    /\ dir' = IF dir[loc[p].key].exists THEN Removed(dir, loc[p].key) ELSE dir
    /\ Return(p, Miss(p))
    /\ UNCHANGED <<now, threshold, last, faults>>

\* ------------------------------------------------------------------ delete
DeleteStart(p, k) ==
    /\ Call(p, "delete", k, <<>>, NoTimeout, Undef, "delete")
    /\ UNCHANGED <<dir, now, threshold, faults>>

\* DeleteRemove returning True from the handler as well.
DeleteRemoveTrue(p) ==
    /\ pc[p] = "delete"
    /\ dir' = IF dir[loc[p].key].exists THEN Removed(dir, loc[p].key) ELSE dir
    /\ Return(p, RTrue)
    /\ UNCHANGED <<now, threshold, last, faults>>

\* delete, lines 147-152: os.remove; True unless it raised.
DeleteRemove(p) ==
    /\ pc[p] = "delete"
    /\ IF dir[loc[p].key].exists
       THEN /\ dir' = Removed(dir, loc[p].key)
            /\ Return(p, RTrue)
       ELSE /\ Return(p, RFalse)
            /\ UNCHANGED dir
    /\ UNCHANGED <<now, threshold, last, faults>>

\* ------------------------------------------------------------------- clear
ClearStart(p) ==
    /\ Call(p, "clear", "", <<>>, NoTimeout, Undef, "clear_list")
    /\ UNCHANGED <<dir, now, threshold, faults>>

\* clear, line 76: self._list_dir().
ClearList(p) ==
    /\ pc[p] = "clear_list"
    /\ \E es \in Listings(dir) : loc' = [loc EXCEPT ![p].entries = es, ![p].idx = 0]
    /\ Goto(p, "clear_remove")
    /\ UNCHANGED <<dir, now, threshold, last, faults>>

\* ClearRemove returning True from inside the loop, after the first file.
ClearRemoveFirst(p) ==
    /\ pc[p] = "clear_remove"
    /\ LET i == loc[p].idx
           es == loc[p].entries
       IN IF i >= Len(es) \/ i >= 1 THEN
               /\ Return(p, RTrue)
               /\ UNCHANGED dir
          ELSE IF dir[es[i + 1]].exists THEN
               /\ dir' = Removed(dir, es[i + 1])
               /\ loc' = [loc EXCEPT ![p].idx = i + 1]
               /\ Goto(p, "clear_remove")
          ELSE /\ Return(p, RFalse)
               /\ UNCHANGED dir
    /\ UNCHANGED <<now, threshold, last, faults>>

\* clear, lines 76-81: os.remove of the next listed file; False at the first
\* one that fails, True after the last.
ClearRemove(p) ==
    /\ pc[p] = "clear_remove"
    /\ LET i == loc[p].idx
           es == loc[p].entries
       IN IF i >= Len(es) THEN
               /\ Return(p, RTrue)
               /\ UNCHANGED dir
          ELSE IF dir[es[i + 1]].exists THEN
               /\ dir' = Removed(dir, es[i + 1])
               /\ loc' = [loc EXCEPT ![p].idx = i + 1]
               /\ Goto(p, "clear_remove")
          ELSE /\ Return(p, RFalse)
               /\ UNCHANGED dir
    /\ UNCHANGED <<now, threshold, last, faults>>

\* ------------------------------------------------------ filesystem failures
\* os.listdir raises OSError in _list_dir: neither _prune (line 57, outside
\* its try) nor put / put_file / clear (line 76) has a handler around it.
ListFails(p) ==
    /\ faults > 0
    /\ pc[p] \in {"prune_list", "clear_list"}
    /\ faults' = faults - 1
    /\ Return(p, RRaised("OSError"))
    /\ UNCHANGED <<dir, now, threshold, last>>

\* getmtime or remove raises OSError inside _prune's try: the handler of
\* line 68 is outside the loop, so the scan ends and the write goes on.
PruneFails(p) ==
    /\ faults > 0
    /\ \/ pc[p] = "prune_stat" /\ loc[p].idx < Len(loc[p].entries)
       \/ pc[p] = "prune_remove"
    /\ faults' = faults - 1
    /\ EndPrune(p)
    /\ UNCHANGED <<dir, now, threshold, last>>

\* A filesystem call of put (lines 111-117) or put_file (lines 134-136)
\* raises IOError / OSError: the handler returns None; nothing is undone.
WriteFails(p) ==
    /\ faults > 0
    /\ \/ pc[p] \in {"mkstemp", "write", "rename", "chmod",
                     "copy_open", "copy_write", "copy_mode"}
       \/ pc[p] = "utime" /\ loc[p].expires # Undef
    /\ faults' = faults - 1
    /\ Return(p, RNone)
    /\ UNCHANGED <<dir, now, threshold, last>>

\* ReadFails with clear passing over the file it could not remove.
ReadFailsSkip(p) ==
    /\ faults > 0
    /\ \/ pc[p] \in {"stat", "remove", "delete"}
       \/ pc[p] = "clear_remove" /\ loc[p].idx < Len(loc[p].entries)
    /\ faults' = faults - 1
    /\ IF pc[p] = "clear_remove"
       THEN /\ loc' = [loc EXCEPT ![p].idx = @ + 1]
            /\ UNCHANGED <<pc, ret>>
       ELSE Return(p, Miss(p))
    /\ UNCHANGED <<dir, now, threshold, last>>

\* getmtime / remove raises OSError in get, has (lines 96, 166), delete
\* (line 149) or clear (line 79): the negative sentinel.
ReadFails(p) ==
    /\ faults > 0
    /\ \/ pc[p] \in {"stat", "remove", "delete"}
       \/ pc[p] = "clear_remove" /\ loc[p].idx < Len(loc[p].entries)
    /\ faults' = faults - 1
    /\ Return(p, Miss(p))
    /\ UNCHANGED <<dir, now, threshold, last>>

\* ----------------------------------------------------------- specifications
\* The state after construction over an empty cache directory.
InitWith(th, nf) ==
    /\ dir = [n \in Names |-> Absent]
    /\ now = 0
    /\ threshold = th
    /\ pc = [p \in Procs |-> "idle"]
    /\ loc = [p \in Procs |-> InitLoc]
    /\ ret = [p \in Procs |-> RNoCall]
    /\ last = [p \in Procs |-> NoCall]
    /\ faults = nf

\* The steps of a call in progress: of put, of put_file beyond those it
\* shares with put, of get / has, of clear.
PruneSteps(p) == PruneList(p) \/ PruneStat(p) \/ PruneRemove(p)

StampSteps(p) == Utime(p) \/ Chmod(p)

PutSteps(p) ==
    PruneSteps(p) \/ PutMkstemp(p) \/ PutWrite(p) \/ PutRename(p) \/ StampSteps(p)

CopySteps(p) == CopyOpen(p) \/ CopyWrite(p) \/ CopyMode(p)

ReadSteps(p) == GetStat(p) \/ GetRemove(p)

ClearSteps(p) == ClearList(p) \/ ClearRemove(p)

Step(p) ==
    PutSteps(p) \/ CopySteps(p) \/ ReadSteps(p) \/ DeleteRemove(p) \/ ClearSteps(p)

\* The calls a client can make.
Begin(p, ks, ds, ts) ==
    \/ \E k \in ks, d \in ds, t \in ts : PutStart(p, k, d, t)
    \/ \E k \in ks, d \in ds, t \in ts : PutFileStart(p, k, d, t)
    \/ \E k \in ks : GetStart(p, k)
    \/ \E k \in ks : HasStart(p, k)
    \/ \E k \in ks : DeleteStart(p, k)
    \/ ClearStart(p)

Fail(p) == ListFails(p) \/ PruneFails(p) \/ WriteFails(p) \/ ReadFails(p)

\* One process, no filesystem failure, every timeout but 0.
Init == InitWith(SeqThreshold, 0)

Next == Tick \/ Begin(1, {"a", "b"}, Payloads, PosTimeouts) \/ Step(1)

Spec == Init /\ [][Next]_vars

\* One process, no filesystem failure, every timeout, one payload.
NextAny == Tick \/ Begin(1, {"a", "b"}, {<<1, 2>>}, Timeouts) \/ Step(1)

SpecAny == Init /\ [][NextAny]_vars

\* Two processes on one cache directory, no filesystem failure: a writer of
\* one payload beside a client that writes another, reads and deletes.
InitConc == InitWith(ConcThreshold, 0)

NextConc ==
    \/ Tick
    \/ PutStart(1, "a", <<1, 2>>, NoTimeout)
    \/ PutStart(2, "a", <<3, 4>>, 1)
    \/ GetStart(2, "a")
    \/ HasStart(2, "a")
    \/ DeleteStart(2, "a")
    \/ PutSteps(1)
    \/ PutSteps(2) \/ ReadSteps(2) \/ DeleteRemove(2)

SpecConc == InitConc /\ [][NextConc]_vars

\* Two processes, no filesystem failure: put_file beside a reader.
NextCopy ==
    \/ Tick
    \/ \E k \in {"a", "b"} : PutFileStart(1, k, <<1, 2>>, NoTimeout)
    \/ GetStart(2, "a")
    \/ PruneSteps(1) \/ CopySteps(1) \/ StampSteps(1)
    \/ ReadSteps(2)

SpecCopy == InitConc /\ [][NextCopy]_vars

\* One process, no filesystem failure, puts over four keys.
InitPrune == InitWith(PruneThreshold, 0)

NextPrune ==
    \/ Tick
    \/ \E k \in Keys : PutStart(1, k, <<1, 2>>, 1)
    \/ PutSteps(1)

SpecPrune == InitPrune /\ [][NextPrune]_vars

\* One process, the default timeout, filesystem calls may fail.
InitFault == InitWith(SeqThreshold, MaxFaults)

NextFault ==
    Tick \/ Begin(1, {"a", "b"}, {<<1, 2>>}, {NoTimeout}) \/ Step(1) \/ Fail(1)

SpecFault == InitFault /\ [][NextFault]_vars

\* One process within one tick of the clock: puts over three keys and clear,
\* whose removals may fail.
NextClearFault ==
    \/ \E k \in {"a", "b", "c"} : PutStart(1, k, <<1, 2>>, NoTimeout)
    \/ PutSteps(1)
    \/ ClearStart(1)
    \/ ClearSteps(1)
    \/ ReadFails(1)

SpecClearFault == InitFault /\ [][NextClearFault]_vars

\* One process, puts over four keys, a stat or a removal of the scan may fail.
InitPruneFault == InitWith(PruneThreshold, MaxFaults)

NextPruneFault == NextPrune \/ PruneFails(1)

SpecPruneFault == InitPruneFault /\ [][NextPruneFault]_vars

\* Two processes, no filesystem failure: a put of a positive timeout beside
\* a client that only reads.
NextRead ==
    \/ Tick
    \/ PutStart(1, "a", <<1, 2>>, 1)
    \/ GetStart(2, "a")
    \/ HasStart(2, "a")
    \/ PruneList(1) \/ PutMkstemp(1) \/ PutWrite(1) \/ PutRename(1) \/ StampSteps(1)
    \/ ReadSteps(2)

SpecRead == InitConc /\ [][NextRead]_vars

\* Two processes within one tick of the clock, no filesystem failure: a
\* client of every operation over three keys, and a second writer that puts a
\* fourth key once.
NextSize ==
    \/ Begin(1, {"a", "b", "c"}, {<<1, 2>>}, {1})
    \/ PutSteps(1) \/ CopySteps(1) \/ GetStat(1) \/ DeleteRemove(1) \/ ClearSteps(1)
    \/ loc[2].op = "none" /\ PutStart(2, "d", <<1, 2>>, 1)
    \/ PutSteps(2)

SpecSize == InitConc /\ [][NextSize]_vars


\* ------------------------------------------------------------------ claims
Hit(p) == IF loc[p].op = "get" THEN RPath(loc[p].key) ELSE RTrue

Returned(p, op) == pc[p] = "idle" /\ loc[p].op = op /\ ret[p] # RNoCall

\* The stored expiry instant of the file under k has passed.
Expired(k) == dir[k].exists /\ dir[k].mtime < now

PutReturnsPath ==
    \A p \in Procs :
        /\ Returned(p, "put") =>
              /\ ret[p] = RPath(loc[p].key)
              /\ dir[loc[p].key].exists
              /\ dir[loc[p].key].content = loc[p].data
        /\ (pc[p] = "chmod" /\ loc[p].op = "put") =>
              /\ dir[loc[p].key].exists
              /\ dir[loc[p].key].mtime >= loc[p].t0

GetAfterPut ==
    \A p \in Procs :
        (/\ pc[p] = "stat" /\ pc'[p] # "stat" /\ loc[p].op = "get"
         /\ last[p].op = "put" /\ last[p].key = loc[p].key
         /\ ~Expired(loc[p].key))
        => /\ ret'[p] = last[p].ret
           /\ dir'[loc[p].key].exists
           /\ dir'[loc[p].key].content = last[p].data

\* C1: without filesystem failure, put(key, payload) stamps an expiry instant
\* that is not before the time of the call and returns the path with the
\* payload stored under the key, and a get(key) that follows it before the
\* stored expiry instant returns that same path, the file under it holding
\* exactly the payload.
RoundTrip == [][GetAfterPut]_vars /\ []PutReturnsPath

RoundTripWitness ==
    /\ Returned(1, "get")
    /\ last[1].op = "put" /\ last[1].key = "a" /\ last[1].data = <<3, 4>>
    /\ ret[1] = RPath("a")
    /\ dir["a"].content = <<3, 4>>
    /\ dir["b"].exists /\ dir["b"].content = <<1, 2>>


Reading(p) == loc[p].op \in {"get", "has"}

OthersKept(k) == \A n \in Names \ {k} : dir'[n] = dir[n]

\* A step of get / has: the stat decides, the remove follows an expired stat.
ReadStep ==
    \A p \in Procs :
        LET k == loc[p].key
        IN /\ (Reading(p) /\ pc[p] = "stat" /\ pc'[p] # "stat") =>
                /\ (ret'[p] = Hit(p)) <=> (dir[k].exists /\ dir[k].mtime >= now)
                /\ (dir[k].exists /\ dir[k].mtime < now) <=> (pc'[p] = "remove")
                /\ ~dir[k].exists => ret'[p] = Miss(p)
                /\ dir' = dir
           /\ (Reading(p) /\ pc[p] = "remove" /\ pc'[p] # "remove") =>
                /\ ret'[p] = Miss(p)
                /\ ~dir'[k].exists
                /\ OthersKept(k)

\* A file appears under a name only by a writer's step for that name.
AppearsByWrite ==
    \A n \in Names :
        (~dir[n].exists /\ dir'[n].exists) =>
            \E p \in Procs :
                \/ pc[p] = "rename" /\ loc[p].key = n
                \/ pc[p] = "copy_open" /\ loc[p].key = n
                \/ pc[p] = "mkstemp" /\ n \in TmpNames(p)

\* A get / has that has returned its negative sentinel has left no file.
MissLeavesNoFile ==
    \A p \in Procs :
        (pc[p] = "idle" /\ Reading(p) /\ ret[p] = Miss(p)) => ~dir[loc[p].key].exists

\* C2: get returns the path and has returns True exactly when a file exists
\* under the key with a stored expiry instant >= the current time; a file
\* whose stored expiry instant is < now is removed and reported as a miss,
\* no other file is touched, and the key stays absent until a write to it.
ExpiryOnRead == [][ReadStep /\ AppearsByWrite]_vars /\ []MissLeavesNoFile

ExpiryOnReadWitness ==
    /\ Returned(1, "has") /\ loc[1].key = "a"
    /\ ret[1] = RFalse
    /\ loc[1].mtime > 0 /\ loc[1].mtime < loc[1].t
    /\ ~dir["a"].exists
    /\ dir["b"].exists /\ dir["b"].mtime >= now


\* Whatever is under a key is a whole payload.
PublishedWhole == \A k \in Keys : dir[k].exists => dir[k].content \in Payloads

\* The bytes under a key change only by the rename that publishes a writer's
\* whole payload.
ContentByRename ==
    \A k \in Keys :
        (dir'[k].exists /\ (~dir[k].exists \/ dir'[k].content # dir[k].content)) =>
            \E p \in Procs :
                /\ pc[p] = "rename" /\ pc'[p] = "utime" /\ loc[p].key = k
                /\ dir[loc[p].tmp].content = loc[p].data
                /\ dir'[k].content = loc[p].data

\* C3: at every step of concurrent puts, readers and deletes, the file under
\* a key is absent or holds one writer's complete payload; its bytes change
\* only at a writer's rename, to that writer's complete payload, so nothing of
\* a temporary file is under the key before the rename.
AtomicPut == [][ContentByRename]_vars /\ []PublishedWhole

AtomicPutWitness ==
    /\ pc[1] = "write" /\ dir[loc[1].tmp].exists /\ dir[loc[1].tmp].content = <<1>>
    /\ dir["a"].exists /\ dir["a"].content = <<3, 4>>
    /\ pc[2] = "stat" /\ loc[2].key = "a"

\* The file under k was created by a writer that is done and holds its payload.
HoldsLastRenamed(k) ==
    /\ dir[k].exists
    /\ dir[k].by \in Procs
    /\ dir[k].content = loc[dir[k].by].data

\* C9: once two puts to the same key, of different payloads, have both
\* returned their path, the file under the key holds in full the payload of
\* the writer that renamed last, and no temporary file is left.
LastRenameWins ==
    (/\ Returned(1, "put") /\ Returned(2, "put")
     /\ loc[1].key = loc[2].key
     /\ ret[1] = RPath(loc[1].key) /\ ret[2] = RPath(loc[2].key))
    => /\ HoldsLastRenamed(loc[1].key)
       /\ \A n \in AllTmp : ~dir[n].exists

LastRenameWinsWitness ==
    /\ Returned(1, "put") /\ Returned(2, "put")
    /\ ret[1] = RPath("a") /\ ret[2] = RPath("a")
    /\ dir["a"].by = 1 /\ dir["a"].content = <<1, 2>>
    /\ dir["a"].mtime = 2


\* C4: a get that returns the path of a key finds a whole payload under it,
\* also while put_file copies into that key.
ReaderSeesWhole ==
    \A p \in Procs :
        (Returned(p, "get") /\ ret[p] = RPath(loc[p].key)) =>
            dir[loc[p].key].content \in Payloads

\* C5: no call ends in a raised error.
NoErrorEscapes == \A p \in Procs : ret[p].tag # "raised"

\* A step of the scan: the entry at 0-based position idx is evicted iff its
\* stored expiry < the scan's now or idx mod 3 = 0; nothing else changes.
PruneStep ==
    \A p \in Procs :
        LET i == loc[p].idx
            f == loc[p].entries[i + 1]
        IN /\ (pc[p] = "prune_stat" /\ i < Len(loc[p].entries)
                 /\ <<pc[p], loc[p]>> # <<pc'[p], loc'[p]>>) =>
                /\ dir' = dir
                /\ loc'[p].entries = loc[p].entries /\ loc'[p].pnow = loc[p].pnow
                /\ IF dir[f].mtime < loc[p].pnow \/ i % 3 = 0
                   THEN pc'[p] = "prune_remove" /\ loc'[p].idx = i
                   ELSE pc'[p] = "prune_stat" /\ loc'[p].idx = i + 1
           /\ (pc[p] = "prune_remove" /\ pc'[p] # "prune_remove") =>
                /\ ~dir'[f].exists /\ OthersKept(f)
                /\ pc'[p] = "prune_stat" /\ loc'[p].idx = i + 1
                /\ loc'[p].entries = loc[p].entries /\ loc'[p].pnow = loc[p].pnow

\* The pass runs over a listing of the whole directory, above the threshold,
\* with now read at its start; the entries it has passed and left are not
\* expired and not at a position that is a multiple of 3.
PrunePassed ==
    \A p \in Procs :
        pc[p] \in {"prune_stat", "prune_remove"} =>
            /\ Len(loc[p].entries) > threshold
            /\ loc[p].pnow <= now
            /\ \A i \in DOMAIN loc[p].entries :
                 LET f == loc[p].entries[i]
                 IN IF i - 1 < loc[p].idx
                    THEN dir[f].exists <=>
                           (dir[f].mtime >= loc[p].pnow /\ (i - 1) % 3 # 0)
                    ELSE dir[f].exists

\* C7: in a prune pass of put over a listing above the threshold, the entry
\* at 0-based position i is evicted iff its stored expiry < now or
\* i mod 3 = 0, before anything is written, and every other entry stays as it
\* is, content and expiry.
PruneExact == [][PruneStep]_vars /\ []PrunePassed

PruneExactWitness ==
    /\ pc[1] = "prune_stat" /\ threshold = 3
    /\ Len(loc[1].entries) = 4 /\ loc[1].idx = 4
    /\ ~dir[loc[1].entries[1]].exists /\ ~dir[loc[1].entries[4]].exists
    /\ dir[loc[1].entries[2]].exists /\ dir[loc[1].entries[2]].mtime >= now
    /\ dir[loc[1].entries[3]].exists /\ dir[loc[1].entries[3]].mtime >= now
    /\ now = 0

\* C8: unless a put is between its mkstemp and its rename, the directory
\* holds no file with the temporary suffix.
NoStrayTemp ==
    (\A p \in Procs : pc[p] \notin {"write", "rename"}) =>
        \A n \in AllTmp : ~dir[n].exists


ClearedAll ==
    \A p \in Procs : Returned(p, "clear") => (ret[p] = RTrue /\ Present(dir) = {})

HasAfterClear ==
    \A p \in Procs :
        (/\ pc[p] = "stat" /\ pc'[p] # "stat" /\ loc[p].op = "has"
         /\ last[p].op = "clear")
        => ret'[p] = RFalse /\ pc'[p] = "idle"

\* C6: without removal failure, after any calls (zero timeouts included)
\* clear() returns True and leaves the directory without a file, and a
\* has(key) that follows it returns False.
ClearEmpties == [][HasAfterClear]_vars /\ []ClearedAll

ClearEmptiesWitness ==
    /\ Returned(1, "has") /\ ret[1] = RFalse
    /\ last[1].op = "clear" /\ last[1].ret = RTrue
    /\ Present(dir) = {}

UnknownKeyStep ==
    \A p \in Procs :
        (/\ pc[p] \in {"stat", "delete"} /\ pc'[p] # pc[p]
         /\ ~dir[loc[p].key].exists)
        => /\ pc'[p] = "idle"
           /\ ret'[p] = IF loc[p].op = "get" THEN RNone ELSE RFalse
           /\ dir' = dir

\* C10: get, has and delete of a key with no file return None, False and
\* False, raise nothing, and leave every file as it is.
UnknownKey == [][UnknownKeyStep]_vars

UnknownKeyWitness ==
    /\ Returned(1, "delete") /\ loc[1].key = "a" /\ ret[1] = RFalse
    /\ ~dir["a"].exists
    /\ dir["b"].exists /\ dir["b"].content = <<3, 4>>

\* The step of delete: True iff there was a file under the key, which is
\* gone after it; no other file changes.
DeleteStep ==
    \A p \in Procs :
        LET k == loc[p].key
        IN (pc[p] = "delete" /\ pc'[p] # "delete") =>
              /\ pc'[p] = "idle"
              /\ ret'[p] = (IF dir[k].exists THEN RTrue ELSE RFalse)
              /\ ~dir'[k].exists
              /\ OthersKept(k)

\* A key without a file gets one only by a put's rename or a put_file's open.
AbsentUntilPut ==
    \A k \in Keys :
        (~dir[k].exists /\ dir'[k].exists) =>
            \E p \in Procs :
                /\ loc[p].key = k
                /\ \/ loc[p].op = "put" /\ pc[p] = "rename"
                   \/ loc[p].op = "put_file" /\ pc[p] = "copy_open"

\* get / has of a key without a file is a miss.
AbsentIsMiss ==
    \A p \in Procs :
        (Reading(p) /\ pc[p] = "stat" /\ pc'[p] # "stat" /\ ~dir[loc[p].key].exists)
        => pc'[p] = "idle" /\ ret'[p] = Miss(p)

\* A delete that has returned True has left no file under its key.
DeletedGone ==
    \A p \in Procs :
        (Returned(p, "delete") /\ ret[p] = RTrue) => ~dir[loc[p].key].exists

\* C11: delete(key) returns True exactly when a file was under the key, expired
\* or not, and removes it, False otherwise; after it the key has no file, so
\* has is False and get a miss, until the next put or put_file to the key; no
\* other entry changes.
DeleteExact == [][DeleteStep /\ AbsentUntilPut /\ AbsentIsMiss]_vars /\ []DeletedGone

DeleteExactWitness ==
    /\ Returned(1, "delete") /\ loc[1].key = "a" /\ ret[1] = RTrue
    /\ ~dir["a"].exists
    /\ dir["b"].exists /\ dir["b"].content = <<3, 4>> /\ dir["b"].mtime < now

\* Every put_file returns the path, the source's bytes under the key.
PutFileReturnsPath ==
    \A p \in Procs :
        Returned(p, "put_file") =>
            /\ ret[p] = RPath(loc[p].key)
            /\ dir[loc[p].key].exists
            /\ dir[loc[p].key].content = loc[p].data

\* The last step of a put_file that follows a put_file of the same source:
\* the expiry under the key is the one this call computed.
OverwriteStep ==
    \A p \in Procs :
        LET k == loc[p].key
        IN (/\ pc[p] = "chmod" /\ pc'[p] = "idle" /\ loc[p].op = "put_file"
            /\ last[p].op = "put_file" /\ last[p].key = k /\ last[p].data = loc[p].data)
           => /\ ret'[p] = RPath(k)
              /\ dir'[k].exists
              /\ dir'[k].content = loc[p].data
              /\ dir'[k].mtime = Expires(loc[p].t0, loc[p].timeout)
              /\ Valid(dir'[k].mtime, loc[p].t0)

\* C12: put_file stores the source's bytes under the source's base name;
\* called twice in a row with the same source it returns the path both times,
\* and after the second call the key holds the source's content with the
\* expiry the second call computed from its own time and timeout, which is
\* not before the time of that call.
PutFileOverwrite == [][OverwriteStep]_vars /\ []PutFileReturnsPath

PutFileOverwriteWitness ==
    /\ Returned(1, "put_file") /\ loc[1].key = "a" /\ ret[1] = RPath("a")
    /\ last[1].op = "put_file" /\ last[1].key = "a" /\ last[1].data = <<1, 2>>
    /\ dir["a"].content = <<1, 2>>
    /\ dir["a"].mtime = IntSec(2 + _timeout * Res)
    /\ dir["a"].mtime > IntSec(_timeout * Res)

\* The files of clear's listing before position idx are gone, the others are
\* still there.
ClearedPrefix ==
    \A p \in Procs :
        pc[p] = "clear_remove" =>
            \A i \in DOMAIN loc[p].entries :
                dir[loc[p].entries[i]].exists <=> (i > loc[p].idx)

\* A step of clear's loop: the next listed file is removed and no other, or
\* its removal fails and clear returns False at once, removing nothing; True
\* is returned only past the end of the listing.
ClearStep ==
    \A p \in Procs :
        LET i == loc[p].idx
            es == loc[p].entries
        IN (pc[p] = "clear_remove" /\ <<pc[p], loc[p]>> # <<pc'[p], loc'[p]>>) =>
              \/ /\ i < Len(es)
                 /\ pc'[p] = "clear_remove" /\ loc'[p].idx = i + 1
                 /\ loc'[p].entries = es
                 /\ ~dir'[es[i + 1]].exists /\ OthersKept(es[i + 1])
              \/ /\ i < Len(es)
                 /\ pc'[p] = "idle" /\ ret'[p] = RFalse
                 /\ dir' = dir
              \/ /\ i = Len(es)
                 /\ pc'[p] = "idle" /\ ret'[p] = RTrue
                 /\ dir' = dir

\* C13: clear removes the listed files in listing order; at the first removal
\* that fails it stops and returns False, the files listed before the failing
\* one removed, the failing one and those listed after it still present; it
\* returns True only when every listed file was removed.
ClearNotTransactional == [][ClearStep]_vars /\ []ClearedPrefix

ClearNotTransactionalWitness ==
    /\ Returned(1, "clear") /\ ret[1] = RFalse /\ faults = 0
    /\ Cardinality(Present(dir)) = 1
    /\ \E k \in {"a", "b", "c"} : dir[k].exists /\ dir[k].content = <<1, 2>>

Scanning(p) == pc[p] \in {"prune_stat", "prune_remove"}

\* C14: when a prune pass ends, no entry listed after the position it
\* reached is left that is expired or at a position that is a multiple of 3
\* (a failure at one entry does not keep the pass from the later ones), and
\* the put goes on to its write.
ScanPastFailure ==
    [][\A p \in Procs :
          (Scanning(p) /\ pc'[p] \notin {"prune_stat", "prune_remove"}) =>
              /\ pc'[p] = AfterPrune(p)
              /\ \A i \in DOMAIN loc[p].entries :
                   (i - 1 > loc[p].idx /\ dir'[loc[p].entries[i]].exists) =>
                       ~(\/ dir'[loc[p].entries[i]].mtime < loc[p].pnow
                         \/ (i - 1) % 3 = 0)]_vars

\* C15: a put, put_file whose directory listing fails skips the pruning and
\* goes on to its write: the step that leaves the listing leads to the scan
\* or to the write, never out of the call, and evicts nothing.
ListingFailureSkipsPrune ==
    [][\A p \in Procs :
          (pc[p] = "prune_list" /\ pc'[p] # "prune_list") =>
              /\ pc'[p] \in {"prune_stat", AfterPrune(p)}
              /\ dir' = dir]_vars

Writing(p) ==
    pc[p] \in {"mkstemp", "write", "rename", "utime", "chmod",
               "copy_open", "copy_write", "copy_mode"}

\* With at most threshold files listed, _prune goes straight on to the write.
NoPruneStep ==
    \A p \in Procs :
        (/\ pc[p] = "prune_list" /\ pc'[p] # "prune_list"
         /\ Cardinality(Present(dir)) <= threshold)
        => pc'[p] = AfterPrune(p) /\ dir' = dir

\* The steps of the write leave every entry but the call's own as it is.
OwnKeyOnly ==
    \A p \in Procs :
        (Writing(p) /\ pc'[p] # pc[p]) =>
            \A k \in Keys \ {loc[p].key} : dir'[k] = dir[k]

\* C16: a put, put_file that finds at most threshold files evicts nothing and
\* changes only the file under its own key: every other entry keeps its
\* content and its stored expiry, expired or not.
PruneNoOp == [][NoPruneStep /\ OwnKeyOnly]_vars

PruneNoOpWitness ==
    /\ pc[1] = "chmod" /\ loc[1].op = "put_file" /\ loc[1].key = "b"
    /\ loc[1].t0 = 3 /\ threshold = 1
    /\ dir["a"].exists /\ dir["a"].mtime = 2 /\ dir["a"].content = <<3, 4>>
    /\ dir["b"].content = <<1, 2>>

\* The expiry instant of the put that published the file under k: the stamp,
\* or what its writer is about to stamp.
PublishedExpiry(k) ==
    LET q == dir[k].by
    IN IF q \in Procs /\ pc[q] = "utime" /\ loc[q].op = "put" /\ loc[q].key = k
       THEN loc[q].expires
       ELSE dir[k].mtime

\* The remove of get / has takes away only a file whose expiry has passed.
ReaderRemovesExpired ==
    \A p \in Procs :
        LET k == loc[p].key
        IN (/\ Reading(p) /\ pc[p] = "remove"
            /\ dir[k].exists /\ ~dir'[k].exists)
           => PublishedExpiry(k) < now

\* A put beside readers alone returns the path.
PutBesideReaders ==
    \A p \in Procs : Returned(p, "put") => ret[p] = RPath(loc[p].key)

\* C17: a get / has never removes a file that a put of a positive timeout
\* published under the key and whose expiry instant has not passed, however
\* its stat and remove interleave with the put's rename, stamp and chmod; so a
\* put that runs beside readers alone returns the path.
LazyDeletionKeepsValid == [][ReaderRemovesExpired]_vars /\ []PutBesideReaders

\* Process 1 is the only one that has called the cache so far.
Alone == loc[2].op = "none"

\* C18, as claimed: whenever no call is in progress, the directory holds at
\* most threshold + 1 files, with one writer and with two.
SizeBound ==
    (\A p \in Procs : pc[p] = "idle") => Cardinality(Present(dir)) <= threshold + 1

\* C18, amended: while a single process uses the cache, without filesystem
\* failure, the directory holds at most threshold + 1 files after every put,
\* put_file, get, has, delete and clear, and a prune pass that has run to its
\* end has evicted at least one third of its listing.
SizeBoundAlone ==
    Alone =>
        /\ pc[1] = "idle" => Cardinality(Present(dir)) <= threshold + 1
        /\ (pc[1] = "prune_stat" /\ loc[1].idx = Len(loc[1].entries)) =>
              3 * Cardinality({i \in DOMAIN loc[1].entries :
                                  ~dir[loc[1].entries[i]].exists})
                 >= Len(loc[1].entries)

SizeBoundAloneWitness ==
    /\ Alone /\ Returned(1, "put") /\ loc[1].key = "c" /\ ret[1] = RPath("c")
    /\ last[1].op = "put_file" /\ last[1].key = "b"
    /\ Cardinality(Present(dir)) = threshold + 1
    /\ dir["c"].exists /\ ~dir["b"].exists

\* T + t of a call in progress, in ticks: the time of the call plus its
\* timeout, the default one when omitted.
Deadline(p) ==
    loc[p].t0 + (IF loc[p].timeout = NoTimeout THEN _timeout ELSE loc[p].timeout) * Res

Stamped(p) == pc[p] = "chmod" /\ loc[p].op \in {"put", "put_file"}

\* C19, as claimed: the expiry a put, put_file has stamped is exactly T + t,
\* also when T is not a whole number of seconds.
StampIsDeadline ==
    \A p \in Procs : Stamped(p) => dir[loc[p].key].mtime = Deadline(p)

\* The stamp is the whole second at or below T + t.
StampIsWholeSecond ==
    \A p \in Procs :
        Stamped(p) =>
            LET m == dir[loc[p].key].mtime
            IN /\ m % Res = 0
               /\ m <= Deadline(p)
               /\ Deadline(p) < m + Res

\* get / has find the key valid up to and including the stamp, not after it.
ValidUpToStamp ==
    \A p \in Procs :
        LET k == loc[p].key
        IN (Reading(p) /\ pc[p] = "stat" /\ pc'[p] # "stat" /\ dir[k].exists) =>
              IF now <= dir[k].mtime
              THEN pc'[p] = "idle" /\ ret'[p] = Hit(p)
              ELSE pc'[p] = "remove"

\* C19, amended: a successful put, put_file called at time T with timeout
\* t > 0 (the default when omitted) stamps int(T + t), the whole second at or
\* below T + t; get / has report the key valid at every instant up to and
\* including the stamp and invalid after it.
StampTruncated == [][ValidUpToStamp]_vars /\ []StampIsWholeSecond

StampTruncatedWitness ==
    /\ Stamped(1) /\ loc[1].op = "put" /\ loc[1].key = "a"
    /\ loc[1].t0 = 1 /\ loc[1].timeout = 1
    /\ dir["a"].mtime = 2 /\ Deadline(1) = 3
    /\ now = 3

InWrite(p) == pc[p] # "idle" /\ loc[p].op \in {"put", "put_file"}

\* No expiry instant is computed for a zero timeout, and only for it; the call
\* runs the pruner and its write all the same, and does not get past the
\* stamping step.
ZeroUncomputed ==
    \A p \in Procs :
        InWrite(p) =>
            /\ (loc[p].timeout = 0) <=> (loc[p].expires = Undef)
            /\ loc[p].timeout = 0 => pc[p] # "chmod"

\* The stamping step of a call with a zero timeout: the payload is whole
\* under the key, the call ends in an error there and changes nothing more, so
\* the key keeps the time of its last write and the mode the write gave it.
ZeroStampStep ==
    \A p \in Procs :
        LET k == loc[p].key
        IN (pc[p] = "utime" /\ pc'[p] # "utime" /\ loc[p].timeout = 0) =>
              /\ dir[k].exists /\ dir[k].content = loc[p].data
              /\ pc'[p] = "idle" /\ ret'[p] = RRaised("UnboundLocalError")
              /\ dir' = dir
              /\ loc[p].t0 <= dir[k].mtime /\ dir[k].mtime <= now
              /\ dir[k].mode = (IF loc[p].op = "put" THEN MkstempMode ELSE SourceMode)
              /\ dir[k].mode # _mode

=============================================================================
